---- MODULE Spec2Model ----
(***************************************************************************)
(* Model of ggseg_py/plotting_utils.py: the colour resolver                *)
(* (_prepare_coloring), the panel renderer (_plot_views), the legend /     *)
(* colorbar attacher (_add_colorbar), the multi-panel driver (_plot_multi) *)
(* and the three presets plot_view, plot_aseg and plot_surface.            *)
(*                                                                         *)
(* Values.  A float that may be missing is a sequence of length <= 1:      *)
(* <<v>> is the number v, <<>> is NaN / None.  Category labels are strings *)
(* of Alphabet, ordered by their position in it.  A normalised value is a  *)
(* fraction [kind, num, den]; a colour is a tagged pair: an entry of the    *)
(* palette's lookup table, the palette's "bad" colour, or the mask gray.   *)
(***************************************************************************)
EXTENDS Integers, Sequences, FiniteSets, TLC

VARIABLES
    data,       \* resolver: the column handed to _prepare_coloring ([dtype, vals])
    cmapN,      \* resolver: number of entries of the palette's lookup table
    vmin,       \* resolver: explicit lower bound, <<>> when None
    vmax,       \* resolver: explicit upper bound, <<>> when None
    coloring,   \* resolver: the tuple (is_numeric, norm, color_map) returned
    cpc,        \* resolver: "start" | "returned" | "raised"
    gdf,        \* figure: the input table, a sequence of region records
    columns,    \* figure: names of the columns the table has
    call,       \* figure: arguments of the running preset
    pc,         \* figure: position inside the preset / _plot_multi / _plot_views
    resolved,   \* figure: the colouring _plot_multi holds, and how it was obtained
    fig,        \* figure: the figure (panels, figure-level artifacts), <<>> before plt.subplots
    ret         \* figure: what the preset returned to its caller, <<>> if nothing

vars == <<data, cmapN, vmin, vmax, coloring, cpc, gdf, columns, call, pc, resolved, fig, ret>>
colorVars == <<data, cmapN, vmin, vmax, coloring, cpc>>
figVars == <<gdf, columns, call, pc, resolved, fig, ret>>

----------------------------------------------------------------------------
(* Bounds of the model *)

MaxAbs == 2        \* numeric values range over -MaxAbs..MaxAbs
MaxLen == 3        \* longest column handed to the resolver on its own
MaxRows == 2       \* longest table handed to a preset
MaxRowsBroken == 1 \* longest table that lacks a required column

----------------------------------------------------------------------------
(* Floats, fractions, palette *)

NaN == <<>>
None == <<>>
Num(v) == <<v>>
IsNum(x) == Len(x) = 1
Val(x) == x[1]

Abs(v) == IF v < 0 THEN -v ELSE v
Max2(a, b) == IF a >= b THEN a ELSE b
Min2(a, b) == IF a <= b THEN a ELSE b

Frac(n, d) == [kind |-> "val", num |-> n, den |-> d]
FracNaN == [kind |-> "nan", num |-> 0, den |-> 1]
FracRaise == [kind |-> "raise", num |-> 0, den |-> 1]
FracNegInf == [kind |-> "-inf", num |-> 0, den |-> 1]
FracPosInf == [kind |-> "+inf", num |-> 0, den |-> 1]
\* f = n/d, for a defined fraction f (den > 0)
FracIs(f, n, d) == f.kind = "val" /\ f.num * d = n * f.den

\* colours: an entry of the palette's lookup table, the palette's "bad" colour
\* (NaN input), or the mask's fixed gray '#A1A1A1'
Lut(i) == <<"lut", i>>
BadColor == <<"bad", 0>>
MaskGray == <<"#A1A1A1", 0>>

\* cmap(X) for a float X: Colormap.__call__ scales by N, truncates, and sends
\* X == 1 to the last entry, X < 0 to the first (under) and X > 1 to the last (over).
CmapCall(N, f) ==
    CASE f.kind = "nan" -> BadColor
      [] f.kind = "-inf" -> Lut(0)
      [] f.kind = "+inf" -> Lut(N - 1)
      [] f.kind = "val" ->
            IF f.num < 0 THEN Lut(0)
            ELSE IF f.num >= f.den THEN Lut(N - 1)
            ELSE Lut((f.num * N) \div f.den)

----------------------------------------------------------------------------
(* Series reductions used by _prepare_coloring *)

\* data.dropna()
RECURSIVE Dropna(_)
Dropna(s) ==
    IF s = <<>> THEN <<>>
    ELSE IF IsNum(Head(s)) THEN <<Head(s)>> \o Dropna(Tail(s))
    ELSE Dropna(Tail(s))

\* vals.min() / vals.max(): NaN on an empty series
RECURSIVE SeriesMin(_)
SeriesMin(s) ==
    IF s = <<>> THEN NaN
    ELSE IF Len(s) = 1 THEN Head(s)
    ELSE Num(Min2(Val(Head(s)), Val(SeriesMin(Tail(s)))))

RECURSIVE SeriesMax(_)
SeriesMax(s) ==
    IF s = <<>> THEN NaN
    ELSE IF Len(s) = 1 THEN Head(s)
    ELSE Num(Max2(Val(Head(s)), Val(SeriesMax(Tail(s)))))

----------------------------------------------------------------------------
(* matplotlib normalisations as _prepare_coloring builds and the renderer calls them *)

NormalizeObj(lo, hi) == [type |-> "Normalize", vmin |-> lo, vcenter |-> NaN, vmax |-> hi]
TwoSlopeNormObj(lo, c, hi) == [type |-> "TwoSlopeNorm", vmin |-> lo, vcenter |-> c, vmax |-> hi]

\* Normalize.__call__(x): 0 on a zero-width range, ValueError on vmin > vmax,
\* NaN when a bound is NaN, (x - vmin) / (vmax - vmin) otherwise (no clipping).
NormalizeCall(n, x) ==
    IF ~IsNum(n.vmin) \/ ~IsNum(n.vmax) THEN FracNaN
    ELSE IF Val(n.vmin) = Val(n.vmax) THEN Frac(0, 1)
    ELSE IF Val(n.vmin) > Val(n.vmax) THEN FracRaise
    ELSE Frac(x - Val(n.vmin), Val(n.vmax) - Val(n.vmin))

\* TwoSlopeNorm.__call__(x): piecewise-linear through (vmin,0), (vcenter,0.5), (vmax,1),
\* extrapolated to -inf / +inf outside [vmin, vmax].
TwoSlopeNormCall(n, x) ==
    LET lo == Val(n.vmin)
        c  == Val(n.vcenter)
        hi == Val(n.vmax)
    IN  IF x < lo THEN FracNegInf
        ELSE IF x > hi THEN FracPosInf
        ELSE IF x <= c THEN Frac(x - lo, 2 * (c - lo))
        ELSE Frac((hi - c) + (x - c), 2 * (hi - c))

NormCall(n, x) ==
    IF n.type = "TwoSlopeNorm" THEN TwoSlopeNormCall(n, x) ELSE NormalizeCall(n, x)

\* plotting_utils.py lines 53-57 with the diverging test made non-strict
ResolveNorm_NonStrict(low, high) ==
    IF IsNum(low) /\ IsNum(high) /\ Val(low) <= 0 /\ 0 <= Val(high)
       /\ Max2(Abs(Val(low)), Abs(Val(high))) > 0
    THEN LET lim == Max2(Abs(Val(low)), Abs(Val(high)))
         IN  TwoSlopeNormObj(Num(-lim), Num(0), Num(lim))
    ELSE NormalizeObj(low, high)

\* plotting_utils.py lines 53-57 with the diverging norm built on the raw bounds
ResolveNorm_Asymmetric(low, high) ==
    IF IsNum(low) /\ IsNum(high) /\ Val(low) < 0 /\ 0 < Val(high)
    THEN TwoSlopeNormObj(low, Num(0), high)
    ELSE NormalizeObj(low, high)

\* plotting_utils.py lines 53-57: a comparison with NaN is false
ResolveNorm(low, high) ==
    IF IsNum(low) /\ IsNum(high) /\ Val(low) < 0 /\ 0 < Val(high)
    THEN LET lim == Max2(Abs(Val(low)), Abs(Val(high)))
         IN  TwoSlopeNormObj(Num(-lim), Num(0), Num(lim))
    ELSE NormalizeObj(low, high)

----------------------------------------------------------------------------
(* Categories *)

Alphabet == <<"a", "b", "c">>
CatRank(c) == CHOOSE i \in 1..Len(Alphabet) : Alphabet[i] = c
CatLess(x, y) == CatRank(x) < CatRank(y)

SeqContains(s, x) == \E i \in 1..Len(s) : s[i] = x

\* insert c into the sorted duplicate-free sequence s
RECURSIVE InsertSorted(_, _)
InsertSorted(c, s) ==
    IF s = <<>> THEN <<c>>
    ELSE IF c = Head(s) THEN s
    ELSE IF CatLess(c, Head(s)) THEN <<c>> \o s
    ELSE <<Head(s)>> \o InsertSorted(c, Tail(s))

\* the distinct values in order of first appearance
RECURSIVE Categories_Appearance(_)
Categories_Appearance(vals) ==
    IF vals = <<>> THEN <<>>
    ELSE LET rest == Categories_Appearance(SubSeq(vals, 1, Len(vals) - 1))
             c == Val(vals[Len(vals)])
         IN  IF SeqContains(rest, c) THEN rest ELSE rest \o <<c>>

\* pd.Categorical(vals).categories: the distinct values, sorted
RECURSIVE Categories(_)
Categories(vals) ==
    IF vals = <<>> THEN <<>>
    ELSE InsertSorted(Val(Head(vals)), Categories(Tail(vals)))

\* lines 60-62: colors = [cmap(i / max(n - 1, 1)) for i in range(n)]; dict(zip(cats, colors))
\* The dict is kept as the sequence of its items, in insertion order.
BuildColorMap(cats, N) ==
    LET n == Len(cats)
    IN  [k \in 1..n |-> [cat |-> cats[k], color |-> CmapCall(N, Frac(k - 1, Max2(n - 1, 1)))]]

\* color_map[cat], <<>> when the key is absent
Lookup(table, c) ==
    IF \E k \in 1..Len(table) : table[k].cat = c
    THEN <<table[CHOOSE k \in 1..Len(table) : table[k].cat = c].color>>
    ELSE <<>>

----------------------------------------------------------------------------
(* _prepare_coloring *)

\* pd.api.types.is_numeric_dtype
IsNumericDtype(d) == d.dtype = "numeric"

\* lines 46-63; norm and color_map are <<>> for None, <<x>> otherwise
PrepareColoring(d, N, lo, hi) ==
    LET vals == Dropna(d.vals)
    IN  IF IsNumericDtype(d)
        THEN LET low  == IF lo # None THEN lo ELSE SeriesMin(vals)
                 high == IF hi # None THEN hi ELSE SeriesMax(vals)
             IN  [is_numeric |-> TRUE, norm |-> <<ResolveNorm(low, high)>>, color_map |-> None]
        ELSE [is_numeric |-> FALSE, norm |-> None,
              color_map |-> <<BuildColorMap(Categories(vals), N)>>]

NoColoring == [is_numeric |-> FALSE, norm |-> None, color_map |-> None]

----------------------------------------------------------------------------
(* Specification of the colour resolver on its own: Init draws the column, *)
(* the palette and the explicit bounds; the one action calls it.           *)

Viridis_N == 256    \* entries of 'viridis', the default cmap of plot_view and plot_aseg
Tab20_N == 20       \* entries of 'tab20', the default cmap of plot_surface
CmapSizes == {Tab20_N, Viridis_N}

SeqsUpTo(S, n) == UNION {[1..k -> S] : k \in 0..n}
NumElems == {Num(v) : v \in -MaxAbs..MaxAbs} \cup {NaN}
CatElems == {<<Alphabet[i]>> : i \in 1..Len(Alphabet)} \cup {None}
OptBounds == {None} \cup {Num(v) : v \in -MaxAbs..MaxAbs}

NumericColumns(n) == [dtype : {"numeric"}, vals : SeqsUpTo(NumElems, n)]
ObjectColumns(n) == [dtype : {"object"}, vals : SeqsUpTo(CatElems, n)]

NoColumn == [dtype |-> "object", vals |-> <<>>]
NoCall == [fn |-> "none"]

FigIdle ==
    /\ gdf = <<>>
    /\ columns = {}
    /\ call = NoCall
    /\ pc = "off"
    /\ resolved = <<>>
    /\ fig = <<>>
    /\ ret = <<>>

ColorInit ==
    /\ data \in NumericColumns(MaxLen) \cup ObjectColumns(MaxLen)
    /\ cmapN \in CmapSizes
    /\ vmin \in OptBounds
    /\ vmax \in OptBounds
    /\ coloring = NoColoring
    /\ cpc = "start"
    /\ FigIdle

\* a call of _prepare_coloring(data, cmap, vmin, vmax); no statement of it raises
PrepareColoringCall ==
    /\ cpc = "start"
    /\ coloring' = PrepareColoring(data, cmapN, vmin, vmax)
    /\ cpc' = "returned"
    /\ UNCHANGED <<data, cmapN, vmin, vmax>>
    /\ UNCHANGED figVars

ColorNext == PrepareColoringCall

SpecColor == ColorInit /\ [][ColorNext]_vars

----------------------------------------------------------------------------
(* Claims about the colour resolver (checked under SpecColor) *)

NonMissing == {Val(data.vals[i]) : i \in {j \in 1..Len(data.vals) : IsNum(data.vals[j])}}
HasLower == vmin # None \/ NonMissing # {}
HasUpper == vmax # None \/ NonMissing # {}
LowerB == IF vmin # None THEN Val(vmin) ELSE CHOOSE m \in NonMissing : \A x \in NonMissing : m <= x
UpperB == IF vmax # None THEN Val(vmax) ELSE CHOOSE m \in NonMissing : \A x \in NonMissing : m >= x
NumericReturned == cpc = "returned" /\ data.dtype = "numeric"
TheNorm == coloring.norm[1]
\* f + g = 1, i.e. f and g lie at the same distance on either side of 1/2
Opposite(f, g) ==
    /\ f.kind = "val"
    /\ g.kind = "val"
    /\ f.num * g.den + g.num * f.den = f.den * g.den

\* C1: on a numeric column whose resolved bounds satisfy lower < 0 < upper, the
\* normalisation is symmetric around 0 with span L = max(|lower|, |upper|):
\* normalize(-L) = 0, normalize(0) = 1/2, normalize(L) = 1, and v and -v are at
\* equal distance from the midpoint for every v within the span.
C1_DivergingSymmetric ==
    (NumericReturned /\ HasLower /\ HasUpper /\ LowerB < 0 /\ 0 < UpperB) =>
        LET L == Max2(Abs(LowerB), Abs(UpperB))
        IN  /\ coloring.is_numeric
            /\ FracIs(NormCall(TheNorm, -L), 0, 1)
            /\ FracIs(NormCall(TheNorm, 0), 1, 2)
            /\ FracIs(NormCall(TheNorm, L), 1, 1)
            /\ \A v \in 0..L : Opposite(NormCall(TheNorm, v), NormCall(TheNorm, -v))

\* the diverging case with unequal magnitudes on the two sides, bounds observed
C1_Witness ==
    /\ NumericReturned /\ vmin = None /\ vmax = None /\ NonMissing # {}
    /\ LowerB < 0 /\ 0 < UpperB /\ Abs(LowerB) # UpperB
    /\ TheNorm.type = "TwoSlopeNorm"

\* C2 as stated: whenever the resolved bounds satisfy min >= 0 or max <= 0,
\* normalize(min) = 0 and normalize(max) = 1.
C2_Original ==
    (NumericReturned /\ HasLower /\ HasUpper /\ (LowerB >= 0 \/ UpperB <= 0)) =>
        /\ FracIs(NormCall(TheNorm, LowerB), 0, 1)
        /\ FracIs(NormCall(TheNorm, UpperB), 1, 1)

\* C2 amended: whenever the resolved bounds satisfy min < max and (min >= 0 or
\* max <= 0), the normalisation is the plain linear map with normalize(min) = 0,
\* normalize(max) = 1 and normalize(x) = (x - min) / (max - min) in between.
C2_LinearNonDegenerate ==
    (NumericReturned /\ HasLower /\ HasUpper /\ LowerB < UpperB /\ (LowerB >= 0 \/ UpperB <= 0)) =>
        /\ FracIs(NormCall(TheNorm, LowerB), 0, 1)
        /\ FracIs(NormCall(TheNorm, UpperB), 1, 1)
        /\ \A x \in LowerB..UpperB : FracIs(NormCall(TheNorm, x), x - LowerB, UpperB - LowerB)

\* a one-signed, non-degenerate range has been resolved
C2_Witness ==
    /\ NumericReturned /\ HasLower /\ HasUpper
    /\ LowerB < UpperB /\ UpperB <= 0
    /\ TheNorm.type = "Normalize"

\* the resolved range is degenerate: equal bounds, or nothing left after dropna
Degenerate ==
    \/ HasLower /\ HasUpper /\ LowerB = UpperB
    \/ NonMissing = {} /\ vmin = None /\ vmax = None

\* C3 as stated: on a degenerate numeric range _prepare_coloring does not raise
\* and the normalisation maps every value to the palette midpoint 1/2.
C3_DegenerateMidpoint ==
    /\ cpc # "raised"
    /\ (NumericReturned /\ Degenerate) =>
          \A v \in -MaxAbs..MaxAbs : FracIs(NormCall(TheNorm, v), 1, 2)

\* C4: on a non-numeric column the table lists the distinct non-missing values in
\* sorted order; with n categories the one at sorted index i has the palette
\* sampled at i/(n-1) (at 0 when n = 1).  The table is thereby a function of the
\* set of categories and the palette alone.
CatSet == {Val(data.vals[i]) : i \in {j \in 1..Len(data.vals) : IsNum(data.vals[j])}}
TheTable == coloring.color_map[1]
SortedIndex(c) == Cardinality({d \in CatSet : CatLess(d, c)})
----------------------------------------------------------------------------
(* The input table of a preset *)

Sides == {"coronal", "sagittal", "lateral", "medial"}
Hemis == {"left", "right", "midline"}

AllColumns == {"side", "hemi", "region", "value"}
RequiredColumns == {"side", "hemi", "value"}
\* the table has every column, or lacks exactly one of the required ones
ColumnSets == {AllColumns} \cup {AllColumns \ {c} : c \in RequiredColumns}

\* rows of a subcortical (aseg) atlas and of a cortical surface atlas
AtlasSides(atlas) == IF atlas = "aseg" THEN <<"coronal", "sagittal">> ELSE <<"lateral", "medial">>
AtlasHemis(atlas) == IF atlas = "aseg" THEN <<"left", "right", "midline">> ELSE <<"left", "right">>
RegionSeq == <<"???", "cortex">>
ColumnVals(dtype) == IF dtype = "numeric" THEN <<-1, 1>> ELSE <<"a", "b">>

\* the m-th row (m = 0, 1, ...) of an enumeration of the rows of an atlas
NumRows(atlas) == Len(AtlasSides(atlas)) * Len(AtlasHemis(atlas)) * 4
RowAt(atlas, dtype, m) ==
    [side   |-> AtlasSides(atlas)[(m \div (4 * Len(AtlasHemis(atlas)))) + 1],
     hemi   |-> AtlasHemis(atlas)[((m \div 4) % Len(AtlasHemis(atlas))) + 1],
     region |-> RegionSeq[((m \div 2) % 2) + 1],
     val    |-> <<ColumnVals(dtype)[(m % 2) + 1]>>]

\* Tables of at most n rows, and the dtype of their value column.  The renderer
\* never reads the position of a row, so tables are listed up to row order.
NonDecreasing(n, top) ==
    UNION {{s \in [1..k -> 0..(top - 1)] : \A j \in 1..(k - 1) : s[j] <= s[j + 1]} : k \in 0..n}
Tables(n) ==
    UNION {{[dtype |-> dt, rows |-> [j \in 1..Len(s) |-> RowAt(atlas, dt, s[j])]] :
               s \in NonDecreasing(n, NumRows(atlas))} :
              <<atlas, dt>> \in {"aseg", "surface"} \X {"numeric", "object"}}

\* gdf[column] as a series
ColumnOf(g) == [dtype |-> g.dtype, vals |-> [i \in 1..Len(g.rows) |-> g.rows[i].val]]

----------------------------------------------------------------------------
(* View descriptors.  hemi is a str (list = FALSE, one) or a list (list = TRUE, items). *)

ScalarHemi(h) == [list |-> FALSE, one |-> h, items |-> {}]
ListHemi(hs) == [list |-> TRUE, one |-> "", items |-> hs]
View(s, h) == [side |-> s, hemi |-> h]

\* plot_aseg, line 265
AsegViews == <<View("coronal", ListHemi({"left", "right"})), View("sagittal", ScalarHemi("midline"))>>

\* plot_surface, lines 314-319
SurfaceViews ==
    <<View("lateral", ScalarHemi("left")), View("lateral", ScalarHemi("right")),
      View("medial", ScalarHemi("left")), View("medial", ScalarHemi("right"))>>

----------------------------------------------------------------------------
(* _plot_views: one iteration of the loop of lines 142-163 *)

\* lines 143-145 with the hemi filter dropped
SelectView_SideOnly(g, view) == {r \in 1..Len(g.rows) : g.rows[r].side = view.side}

\* lines 143-145: the rows of the table the view selects
SelectView(g, view) ==
    {r \in 1..Len(g.rows) :
        /\ g.rows[r].side = view.side
        /\ IF view.hemi.list THEN g.rows[r].hemi \in view.hemi.items
                             ELSE g.rows[r].hemi = view.hemi.one}

\* line 161: gdf.get('region') is None when the table has no such column, and
\* the comparison then selects nothing
MaskRows(g, cols, view, mask_region) ==
    IF "region" \in cols
    THEN {r \in 1..Len(g.rows) : g.rows[r].side = view.side /\ g.rows[r].region = mask_region}
    ELSE {}

\* the fill of one value: cmap(norm(v)) (GeoDataFrame.plot with column, cmap, norm),
\* or its entry of the category table (sel[column].map(color_map))
FillColor(c, N, v) ==
    IF c.norm # None THEN CmapCall(N, NormCall(c.norm[1], Val(v)))
    ELSE IF Lookup(c.color_map[1], Val(v)) # <<>> THEN Lookup(c.color_map[1], Val(v))[1]
    ELSE BadColor

\* GeoDataFrame.plot on the rows S with the colours f: an empty frame draws nothing
\* (it only warns), otherwise one layer is added on top of the panel
DrawLayer(layers, S, f) == IF S = {} THEN layers ELSE Append(layers, [r \in S |-> f[r]])

BlankPanel == [layers |-> <<>>, axis_on |-> TRUE, legends |-> 0]

\* lines 146-163 with the mask drawn first and the fill over it
RenderPanel_MaskFirst(panel, g, cols, view, c, N, mask_region) ==
    LET sel == SelectView(g, view)
        fill == [r \in sel |-> FillColor(c, N, g.rows[r].val)]
        m == IF mask_region # None THEN MaskRows(g, cols, view, mask_region[1]) ELSE {}
        masked == DrawLayer(panel.layers, m, [r \in m |-> MaskGray])
        filled == IF c.norm # None \/ c.color_map # None THEN DrawLayer(masked, sel, fill) ELSE masked
    IN  [layers |-> filled, axis_on |-> FALSE, legends |-> panel.legends]

\* lines 146-163 without ax.set_axis_off() on a panel nothing was drawn into
RenderPanel_AxisKept(panel, g, cols, view, c, N, mask_region) ==
    LET sel == SelectView(g, view)
        fill == [r \in sel |-> FillColor(c, N, g.rows[r].val)]
        filled == IF c.norm # None \/ c.color_map # None THEN DrawLayer(panel.layers, sel, fill) ELSE panel.layers
        m == IF mask_region # None THEN MaskRows(g, cols, view, mask_region[1]) ELSE {}
        masked == DrawLayer(filled, m, [r \in m |-> MaskGray])
    IN  [layers |-> masked, axis_on |-> masked = <<>>, legends |-> panel.legends]

\* lines 143-163: select, fill (legend=False), overlay the mask, strip the axes
RenderPanel(panel, g, cols, view, c, N, mask_region) ==
    LET sel == SelectView(g, view)
        fill == [r \in sel |-> FillColor(c, N, g.rows[r].val)]
        filled == IF c.norm # None \/ c.color_map # None THEN DrawLayer(panel.layers, sel, fill) ELSE panel.layers
        m == IF mask_region # None THEN MaskRows(g, cols, view, mask_region[1]) ELSE {}
        masked == DrawLayer(filled, m, [r \in m |-> MaskGray])
    IN  [layers |-> masked, axis_on |-> FALSE, legends |-> panel.legends]

----------------------------------------------------------------------------
(* _add_colorbar *)

\* lines 92-98 with a colorbar also added next to a legend
AddColorbar_Both(artifacts, c) ==
    LET a1 == IF c.color_map # None
              THEN Append(artifacts, [type |-> "legend",
                      swatches |-> [k \in 1..Len(c.color_map[1]) |-> c.color_map[1][k].cat]])
              ELSE artifacts
    IN  Append(a1, [type |-> "colorbar", swatches |-> <<>>])

\* lines 92-98: a legend with one patch per key of color_map, else a colorbar
AddColorbar(artifacts, c) ==
    IF c.color_map # None
    THEN Append(artifacts, [type |-> "legend",
            swatches |-> [k \in 1..Len(c.color_map[1]) |-> c.color_map[1][k].cat]])
    ELSE IF c.norm # None
    THEN Append(artifacts, [type |-> "colorbar", swatches |-> <<>>])
    ELSE artifacts

----------------------------------------------------------------------------
(* The presets and _plot_multi, one action per step *)

At(a) == [at |-> a, i |-> 0]
MaskChoices == {<<"???">>, None}

ColorIdle ==
    /\ data = NoColumn
    /\ cmapN = Tab20_N
    /\ vmin = None
    /\ vmax = None
    /\ coloring = NoColoring
    /\ cpc = "off"

Unresolved == [count |-> 0, input |-> NoColumn, coloring |-> NoColoring]

FigInit ==
    /\ columns \in ColumnSets
    /\ gdf \in IF columns = AllColumns THEN Tables(MaxRows) ELSE Tables(MaxRowsBroken)
    /\ call = NoCall
    /\ pc = At("idle")
    /\ resolved = Unresolved
    /\ fig = <<>>
    /\ ret = <<>>
    /\ ColorIdle

Enter(fn, views, layout, mask_region, show_cbar, N) ==
    /\ pc = At("idle")
    /\ call' = [fn |-> fn, views |-> views, layout |-> layout, mask_region |-> mask_region,
                show_cbar |-> show_cbar, cmapN |-> N]
    /\ pc' = At("prepare")
    /\ UNCHANGED <<gdf, columns, resolved, fig, ret>>
    /\ UNCHANGED colorVars

\* plot_view, lines 376-378: one scalar view, 1x1 grid, no mask
PlotView ==
    \E side \in Sides, hemi \in Hemis, show_cbar \in BOOLEAN :
        Enter("plot_view", <<View(side, ScalarHemi(hemi))>>, <<1, 1>>, None, show_cbar, Viridis_N)

\* plot_aseg, lines 265-266: 1x2 grid, the caller's mask region ('???' by default)
PlotAseg ==
    \E mask_region \in MaskChoices, show_cbar \in BOOLEAN :
        Enter("plot_aseg", AsegViews, <<1, 2>>, mask_region, show_cbar, Viridis_N)

\* plot_surface, lines 314-322: 2x2 grid, no mask
PlotSurface ==
    \E show_cbar \in BOOLEAN :
        Enter("plot_surface", SurfaceViews, <<2, 2>>, None, show_cbar, Tab20_N)

\* _plot_multi, line 220: gdf[column] raises KeyError when the column is absent,
\* otherwise the resolver runs on the whole column
MultiPrepare ==
    /\ pc = At("prepare")
    /\ IF "value" \notin columns
       THEN /\ pc' = At("raised")
            /\ UNCHANGED resolved
       ELSE /\ resolved' = [count |-> resolved.count + 1,
                            input |-> ColumnOf(gdf),
                            coloring |-> PrepareColoring(ColumnOf(gdf), call.cmapN, None, None)]
            /\ pc' = At("subplots")
    /\ UNCHANGED <<gdf, columns, call, fig, ret>>
    /\ UNCHANGED colorVars

\* _plot_multi, line 221: plt.subplots(layout[0], layout[1], squeeze=False)
MultiSubplots ==
    /\ pc = At("subplots")
    /\ fig' = <<[panels |-> [k \in 1..(call.layout[1] * call.layout[2]) |-> BlankPanel],
                 artifacts |-> <<>>]>>
    /\ pc' = [at |-> "views", i |-> 1]
    /\ UNCHANGED <<gdf, columns, call, resolved, ret>>
    /\ UNCHANGED colorVars

\* the norm and color_map arguments of line 222, resolved again on the view's rows
PanelColoring_PerView(res, g, view, N) ==
    PrepareColoring([dtype |-> g.dtype,
                     vals |-> [k \in 1..Len(g.rows) |->
                                  IF k \in SelectView(g, view) THEN g.rows[k].val ELSE NaN]],
                    N, None, None)

\* the norm and color_map arguments of line 222: the one result of line 220
PanelColoring(res, g, view, N) == res.coloring

\* the loop of lines 142-163 reading the columns with .get(): an absent 'side' or
\* 'hemi' column no longer raises, the panel is drawn from what can be filtered
PlotViewsStep_Lenient ==
    /\ pc.at = "views"
    /\ fig' = <<[fig[1] EXCEPT !.panels[pc.i] =
                    [layers |-> DrawLayer(@.layers, 1..Len(gdf.rows),
                                          [r \in 1..Len(gdf.rows) |->
                                              FillColor(resolved.coloring, call.cmapN, gdf.rows[r].val)]),
                     axis_on |-> FALSE, legends |-> @.legends]]>>
    /\ pc' = IF pc.i < Min2(Len(call.views), Len(fig[1].panels))
             THEN [at |-> "views", i |-> pc.i + 1]
             ELSE At("cbar")
    /\ UNCHANGED <<gdf, columns, call, resolved, ret>>
    /\ UNCHANGED colorVars

\* _plot_views, one iteration of the loop of lines 142-163 on the next panel in
\* row-major order; gdf['side'] and sel['hemi'] raise KeyError on an absent column
PlotViewsStep ==
    /\ pc.at = "views"
    /\ IF "side" \notin columns \/ "hemi" \notin columns
       THEN /\ pc' = At("raised")
            /\ UNCHANGED fig
       ELSE /\ fig' = <<[fig[1] EXCEPT !.panels[pc.i] =
                           RenderPanel(@, gdf, columns, call.views[pc.i],
                                       PanelColoring(resolved, gdf, call.views[pc.i], call.cmapN),
                                       call.cmapN, call.mask_region)]>>
            /\ pc' = IF pc.i < Min2(Len(call.views), Len(fig[1].panels))
                     THEN [at |-> "views", i |-> pc.i + 1]
                     ELSE At("cbar")
    /\ UNCHANGED <<gdf, columns, call, resolved, ret>>
    /\ UNCHANGED colorVars

\* lines 223-225
Artifacts(artifacts, show_cbar, c) == IF show_cbar THEN AddColorbar(artifacts, c) ELSE artifacts

\* _plot_multi, lines 223-226, and the preset's return of the figure and its panel(s)
MultiFinish ==
    /\ pc = At("cbar")
    /\ fig' = <<[fig[1] EXCEPT !.artifacts = Artifacts(@, call.show_cbar, resolved.coloring)]>>
    /\ ret' = <<[figure |-> TRUE, panels |-> IF call.fn = "plot_view" THEN 1 ELSE Len(fig[1].panels)]>>
    /\ pc' = At("done")
    /\ UNCHANGED <<gdf, columns, call, resolved>>
    /\ UNCHANGED colorVars

Next ==
    \/ PlotView
    \/ PlotAseg
    \/ PlotSurface
    \/ MultiPrepare
    \/ MultiSubplots
    \/ PlotViewsStep
    \/ MultiFinish

Init == FigInit

Spec == Init /\ [][Next]_vars

----------------------------------------------------------------------------
(* Claims about the presets (checked under Spec) *)

Panels == fig[1].panels
NumPanels == IF fig = <<>> THEN 0 ELSE Len(Panels)
RowIds == 1..Len(gdf.rows)
IsMaskLayer(l) == \A r \in DOMAIN l : l[r] = MaskGray
\* the rows a panel's normal fill was drawn for, and the colour it gave them
FillLayers(k) == {j \in 1..Len(Panels[k].layers) : ~IsMaskLayer(Panels[k].layers[j])}
FilledRows(k) == UNION {DOMAIN Panels[k].layers[j] : j \in FillLayers(k)}
FillOf(k, r) == Panels[k].layers[CHOOSE j \in FillLayers(k) : r \in DOMAIN Panels[k].layers[j]][r]
\* the colour of a row as it shows in a panel: that of the topmost layer holding it
ShownRows(k) == UNION {DOMAIN Panels[k].layers[j] : j \in 1..Len(Panels[k].layers)}
TopColor(k, r) ==
    LET js == {j \in 1..Len(Panels[k].layers) : r \in DOMAIN Panels[k].layers[j]}
    IN  Panels[k].layers[CHOOSE j \in js : \A i \in js : i <= j][r]
\* the rows a view descriptor (side, set of hemis) asks for
Matching(side, hemis) == {r \in RowIds : gdf.rows[r].side = side /\ gdf.rows[r].hemi \in hemis}
\* the view descriptors of each preset, as (side, set of hemis), in row-major order
DeclaredViews ==
    CASE call.fn = "plot_surface" ->
            <<<<"lateral", {"left"}>>, <<"lateral", {"right"}>>,
              <<"medial", {"left"}>>, <<"medial", {"right"}>>>>
      [] call.fn = "plot_aseg" ->
            <<<<"coronal", {"left", "right"}>>, <<"sagittal", {"midline"}>>>>
      [] call.fn = "plot_view" ->
            <<<<call.views[1].side, {call.views[1].hemi.one}>>>>
ViewRows(k) == Matching(DeclaredViews[k][1], DeclaredViews[k][2])
Done == pc = At("done")

\* C5: the resolver runs exactly once, on the whole column, before the figure
\* exists and hence before any panel is drawn; every panel's fill comes from that
\* one result, so equal values have equal fills in whichever panels they land;
\* the legend/colorbar is attached only once every panel has been drawn.
C5_ResolveOnceShared ==
    /\ pc.at \in {"idle", "prepare"} => (resolved.count = 0 /\ fig = <<>>)
    /\ pc.at \in {"subplots", "views", "cbar", "done"} =>
          (resolved.count = 1 /\ resolved.input = ColumnOf(gdf))
    /\ fig # <<>> =>
          /\ resolved.count = 1
          /\ fig[1].artifacts # <<>> =>
                (Done /\ \A k \in 1..NumPanels : ~Panels[k].axis_on)
          /\ \A k \in 1..NumPanels : \A r \in FilledRows(k) :
                /\ FillOf(k, r) = FillColor(resolved.coloring, call.cmapN, gdf.rows[r].val)
                /\ \A k2 \in 1..NumPanels : \A r2 \in FilledRows(k2) :
                      gdf.rows[r].val = gdf.rows[r2].val => FillOf(k, r) = FillOf(k2, r2)

\* a finished multi-panel figure with a legend/colorbar whose panels hold two
\* different rows with different values
C5_Witness ==
    /\ Done /\ fig[1].artifacts # <<>>
    /\ \E k, k2 \in 1..NumPanels : \E r \in FilledRows(k), r2 \in FilledRows(k2) :
          k # k2 /\ r # r2 /\ gdf.rows[r].val # gdf.rows[r2].val

\* C6: when the table lacks `side`, `hemi` or the colouring column, the call
\* raises: nothing is ever drawn into a panel, the legend step is never reached
\* and no figure is returned.
C6_SchemaErrorBeforeDrawing ==
    /\ ~(RequiredColumns \subseteq columns) =>
          /\ ret = <<>>
          /\ pc.at \notin {"cbar", "done"}
          /\ \A k \in 1..NumPanels : Panels[k].layers = <<>>
          /\ fig # <<>> => fig[1].artifacts = <<>>
          /\ "value" \notin columns => fig = <<>>
    /\ pc = At("raised") => ~(RequiredColumns \subseteq columns)

\* the call has raised on the first panel because `hemi` is absent
C6_Witness ==
    /\ pc = At("raised") /\ "hemi" \notin columns /\ "side" \in columns
    /\ Len(gdf.rows) > 0 /\ fig # <<>> /\ ret = <<>>

\* C7: a returned figure carries exactly one figure-level artifact when show_cbar
\* is true and none when it is false: a colorbar for a numeric column, a legend
\* with one swatch per category in sorted order for a categorical one; no panel
\* has a legend of its own.
FigCats == {Val(gdf.rows[r].val) : r \in RowIds}
C7_OneSharedArtifact ==
    /\ fig # <<>> => \A k \in 1..NumPanels : Panels[k].legends = 0
    /\ Done =>
          LET a == fig[1].artifacts
          IN  /\ ~call.show_cbar => a = <<>>
              /\ call.show_cbar =>
                    /\ Len(a) = 1
                    /\ gdf.dtype = "numeric" => a[1].type = "colorbar"
                    /\ gdf.dtype = "object" =>
                          /\ a[1].type = "legend"
                          /\ Len(a[1].swatches) = Cardinality(FigCats)
                          /\ \A j \in 1..Len(a[1].swatches) :
                                /\ a[1].swatches[j] \in FigCats
                                /\ Cardinality({c \in FigCats : CatLess(c, a[1].swatches[j])}) = j - 1

\* a returned figure with a two-swatch legend whose table lists "b" before "a"
C7_Witness ==
    /\ Done /\ call.show_cbar /\ gdf.dtype = "object"
    /\ Len(fig[1].artifacts) = 1 /\ Len(fig[1].artifacts[1].swatches) = 2
    /\ Val(gdf.rows[1].val) = "b"

\* C8 as stated: a view that matches no rows raises nothing and leaves its panel
\* blank and axis-free, in plot_view, plot_aseg and plot_surface alike.
C8_Original ==
    /\ columns = AllColumns => pc # At("raised")
    /\ Done => \A k \in 1..NumPanels :
          ViewRows(k) = {} => (Panels[k].layers = <<>> /\ ~Panels[k].axis_on)

\* C8 amended: a view that matches no rows raises nothing; its panel is axis-free
\* and gets no normal fill; it is blank in plot_view and plot_surface, and in
\* plot_aseg too unless a mask is set and rows on the panel's side carry the mask
\* label (these are drawn in gray).  Panels whose views match rows are drawn.
MaskedOnSide(k) ==
    IF call.mask_region = None THEN {}
    ELSE {r \in RowIds : gdf.rows[r].side = DeclaredViews[k][1]
                          /\ gdf.rows[r].region = call.mask_region[1]}
C8_EmptyViewNoFill ==
    /\ columns = AllColumns => pc # At("raised")
    /\ Done =>
          /\ ret = <<[figure |-> TRUE, panels |-> IF call.fn = "plot_view" THEN 1 ELSE NumPanels]>>
          /\ NumPanels = Len(DeclaredViews)
          /\ \A k \in 1..NumPanels :
                /\ ~Panels[k].axis_on
                /\ ViewRows(k) = {} =>
                      /\ FilledRows(k) = {}
                      /\ ShownRows(k) = MaskedOnSide(k)
                      /\ call.fn \in {"plot_view", "plot_surface"} => Panels[k].layers = <<>>
                /\ ViewRows(k) # {} => FilledRows(k) # {}

\* plot_view has returned a one-panel figure for a view no row of a non-empty table matches
C8_Witness ==
    /\ Done /\ call.fn = "plot_view" /\ Len(gdf.rows) > 0
    /\ ViewRows(1) = {} /\ Panels[1].layers = <<>> /\ ~Panels[1].axis_on

\* C9: with a mask region set, every row on a panel's side whose region is the
\* mask label shows in the fixed gray in that panel, whatever its value and hemi,
\* the gray layer lying above the panel's normal fill; the other rows of the
\* panel keep their normal fill.
C9_MaskOnTop ==
    (Done /\ call.mask_region # None) =>
        \A k \in 1..NumPanels :
            /\ \A r \in MaskedOnSide(k) : r \in ShownRows(k) /\ TopColor(k, r) = MaskGray
            /\ \A r \in ViewRows(k) \ MaskedOnSide(k) :
                  /\ r \in ShownRows(k)
                  /\ TopColor(k, r) = FillOf(k, r)
                  /\ TopColor(k, r) # MaskGray
            /\ \A j \in 1..Len(Panels[k].layers) :
                  IsMaskLayer(Panels[k].layers[j]) => j = Len(Panels[k].layers)

\* plot_aseg with mask '???': the coronal panel holds a '???' row that got a
\* normal fill and lies under the gray layer, next to a row that keeps its fill
C9_Witness ==
    /\ Done /\ call.fn = "plot_aseg" /\ call.mask_region = <<"???">>
    /\ \E r \in FilledRows(1) : gdf.rows[r].region = "???" /\ TopColor(1, r) = MaskGray
    /\ \E r \in FilledRows(1) : gdf.rows[r].region # "???" /\ TopColor(1, r) # MaskGray

====
